---- MODULE Spec2Model ----
(***************************************************************************)
(* Model of tg.configuration: ListWithPrecedence (utils.py), the ordered   *)
(* feature registry, and the Configurator (configurator.py) that drives    *)
(* the features' configure / setup / add_middleware steps.                 *)
(***************************************************************************)
EXTENDS Integers, Sequences, FiniteSets, TLC

\* ------------------------------------------------------------------ bounds
\* number of add() calls explored on one ListWithPrecedence
MaxAdds == 3
\* instances created per feature class
MaxInst == 2
\* add_feature() calls explored on one Configurator after its constructor
MaxFeatures == 2

\* ------------------------------------------------------------ Python values
\* Every Python object of the model is a record of the same shape: the
\* singletons None and False, class objects, and instances of a class.
NoneV == [kind |-> "None", cls |-> "", n |-> 0]
FalseV == [kind |-> "False", cls |-> "", n |-> 0]

ClassObj(c) == [kind |-> "class", cls |-> c, n |-> 0]
Inst(c, i) == [kind |-> "inst", cls |-> c, n |-> i]

\* inspect.isclass(current)
IsClass(o) == o.kind = "class"

\* current.__class__
ClassOf(o) == ClassObj(o.cls)

\* the key under which the dependants of an emitted element are looked up:
\* the element itself when it is a class, its class otherwise
CategoryIdentity(o) == o
Category(o) == IF IsClass(o) THEN o ELSE ClassOf(o)

\* ------------------------------------------------------------------- dicts
\* A dict is a function whose DOMAIN is the set of keys present.
EmptyDict == [k \in {} |-> <<>>]

DictGet(d, k, default) == IF k \in DOMAIN d THEN d[k] ELSE default

\* dict.pop(k, default): the dict that is left
DictPop(d, k) == [x \in (DOMAIN d) \ {k} |-> d[x]]

\* self._dependencies.setdefault(after, []).append(obj)
SetDefaultAppendRoot(d, after, obj) ==
    [x \in (DOMAIN d) \cup {NoneV} |->
        IF x = NoneV THEN Append(DictGet(d, NoneV, <<>>), obj) ELSE d[x]]
SetDefaultAppend(d, after, obj) ==
    [x \in (DOMAIN d) \cup {after} |->
        IF x = after THEN Append(DictGet(d, after, <<>>), obj) ELSE d[x]]

\* self._dependencies.copy(): a new dict holding the same items; `shared`
\* tells whether the result is the very object it was made from, so that a
\* pop on the result is a pop on the original
DictNoCopy(d) == [dict |-> d, shared |-> TRUE]
DictCopy(d) == [dict |-> d, shared |-> FALSE]

\* ------------------------------------------------------------------ deques
Reverse(s) == [i \in 1..Len(s) |-> s[Len(s) + 1 - i]]

\* reversed(dependant_wrappers)
ReversedIdentity(s) == s
Reversed(s) == Reverse(s)

\* deque.extendleft(iterable): each item in turn is pushed on the left, so
\* the items end up at the front in the reverse of the order they came in
ExtendRight(q, items) == q \o items
ExtendLeft(q, items) == Reverse(items) \o q

\* ------------------------------------------------- _resolve_ordering (walk)
\* A queue entry is the queued object with where it came from: `key` the
\* dict key of the dependants list that held it and `idx` its place in that
\* list, `anchor` the position in the output of the element whose visit
\* popped that list (0 when a seed's visit did), `depth` one more than the
\* anchor's depth (0 under a seed).
Entry(o, depth, anchor, key, idx) ==
    [obj |-> o, depth |-> depth, anchor |-> anchor, key |-> key, idx |-> idx]

\* deque([False, None])
SeedsNoneOnly == << Entry(NoneV, 0, 0, NoneV, 0) >>
Seeds == << Entry(FalseV, 0, 0, NoneV, 0), Entry(NoneV, 0, 0, NoneV, 0) >>

\* current not in (False, None)
IsElementNotNone(current) == current # NoneV
IsElement(current) == current \notin {FalseV, NoneV}

RECURSIVE VisitLoop(_)
VisitLoop(s) ==
    IF s.visit_queue = <<>> THEN s
    ELSE LET head == Head(s.visit_queue)
             current == head.obj
             emitted == IsElement(current)
             out == IF emitted THEN Append(s.visited, head) ELSE s.visited
             key == IF emitted THEN Category(current) ELSE current
             dependant_wrappers == DictGet(s.registered_wrappers, key, <<>>)
             depth == IF emitted THEN head.depth + 1 ELSE 0
             anchor == IF emitted THEN Len(out) ELSE 0
             queued == [i \in 1..Len(dependant_wrappers) |->
                           Entry(dependant_wrappers[i], depth, anchor, key, i)]
         IN  VisitLoop([registered_wrappers |-> DictPop(s.registered_wrappers, key),
                        visit_queue |-> ExtendLeft(Tail(s.visit_queue), Reversed(queued)),
                        visited |-> out])

\* The walk over a dependency dict: what is left of the working dict, and
\* the entries emitted, in order.
Walk(deps) ==
    VisitLoop([registered_wrappers |-> DictCopy(deps).dict,
               visit_queue |-> Seeds,
               visited |-> <<>>])

Objects(entries) == [i \in 1..Len(entries) |-> entries[i].obj]

\* _resolve_ordering on an object whose _dependencies is deps: the two
\* fields of the object afterwards
ResolveOrdering(deps) ==
    LET w == Walk(deps)
    IN  [dependencies |-> IF DictCopy(deps).shared THEN w.registered_wrappers ELSE deps,
         ordered_elements |-> Objects(w.visited)]

\* ------------------------------------------------ Configurator lifecycle
\* An application is the sequence of the layers it is made of, innermost
\* first; the empty sequence stands for no application.
TGAppV == [kind |-> "app", cls |-> "TGApp", n |-> 0]
RegistryManagerV == [kind |-> "wrapper", cls |-> "RegistryManager", n |-> 0]
HookV(name) == [kind |-> "hook", cls |-> name, n |-> 0]

NoApp == <<>>

\* TGApp(config=self.config)
TGApp == << TGAppV >>

\* the feature classes the Configurator's constructor adds
Builtins == {"I18NSupport", "TemplateEnginesSupport", "RegistrySupport"}

\* of the feature classes an application defines, those that override
\* add_middleware to wrap the application in a layer of their own
WrappingClasses == {"K"}

\* config_step.add_middleware(self.config, app): RegistrySupport wraps the
\* application in a RegistryManager, ConfigurationFeature returns it as is
AddMiddleware(f, app) ==
    IF f.cls = "RegistrySupport" THEN Append(app, RegistryManagerV)
    ELSE IF f.cls \in WrappingClasses THEN Append(app, f)
    ELSE app

\* hooks.notify_with_value(name, value, ...): the value, as the hooks
\* registered under that name hand it back
HookNames == {"before_config", "after_config"}

NotifyWithValue(name, value, hooks) ==
    IF name \in hooks THEN Append(value, HookV(name)) ELSE value

\* one call made during make_wsgi_app: a step of a feature, or a hook
Event(op, f, arg, ret) == [op |-> op, f |-> f, arg |-> arg, ret |-> ret]

\* _configure: for config_step in self._features: config_step.configure(...)
ConfigureEvents(features) ==
    [i \in 1..Len(features) |-> Event("configure", features[i], NoApp, NoApp)]

\* _setup: for config_step in self._features: config_step.setup(...)
SetupEventsReversed(features) ==
    [i \in 1..Len(features) |-> Event("setup", features[Len(features) + 1 - i], NoApp, NoApp)]
SetupEvents(features) ==
    [i \in 1..Len(features) |-> Event("setup", features[i], NoApp, NoApp)]

\* for config_step in self._features: app = config_step.add_middleware(..., app)
RECURSIVE MiddlewareLoop(_, _)
MiddlewareLoop(features, app) ==
    IF features = <<>> THEN <<>>
    ELSE LET ret == AddMiddleware(Head(features), app)
         IN  << Event("add_middleware", Head(features), app, ret) >>
                 \o MiddlewareLoop(Tail(features), ret)

MiddlewareEventsUnchained(features, app) ==
    [i \in 1..Len(features) |->
        Event("add_middleware", features[i], app, AddMiddleware(features[i], app))]
MiddlewareEvents(features, app) == MiddlewareLoop(features, app)

LastRet(events, default) == IF events = <<>> THEN default ELSE events[Len(events)].ret

\* make_wsgi_app run to its return: the calls it makes, in order
LifecycleEvents(features, hooks) ==
    LET before == Event("before_config", NoneV, TGApp,
                        NotifyWithValue("before_config", TGApp, hooks))
        middleware == MiddlewareEvents(features, before.ret)
        wrapped == LastRet(middleware, before.ret)
        after == Event("after_config", NoneV, wrapped,
                       NotifyWithValue("after_config", wrapped, hooks))
    IN  ConfigureEvents(features) \o SetupEvents(features)
            \o << before >> \o middleware \o << after >>

\* make_wsgi_app when its call number raise_at raises (0: none does): the
\* calls made and the application returned
RunMakeWsgiApp(features, hooks, raise_at) ==
    LET events == LifecycleEvents(features, hooks)
    IN  IF raise_at = 0
        THEN [log |-> events, app |-> events[Len(events)].ret]
        ELSE [log |-> SubSeq(events, 1, raise_at), app |-> NoApp]

\* -------------------------------------------------- configuration options
\* self.config is a dict keyed by option name. A key is split at its first
\* dot: ns is the text up to and including that dot ("" when the key has
\* none), name is the rest, so that key.startswith(namespace) is ns = namespace.
Key(ns, name) == [ns |-> ns, name |-> name]

TrueV == [kind |-> "True", cls |-> "", n |-> 0]
Str(s) == [kind |-> "str", cls |-> s, n |-> 0]
Obj(c) == [kind |-> "obj", cls |-> c, n |-> 0]

\* dict.update(other)
DictUpdate(d, other) ==
    [k \in (DOMAIN d) \cup (DOMAIN other) |-> IF k \in DOMAIN other THEN other[k] ELSE d[k]]

\* Bunch({'debug': False, 'tg.app_globals': Bunch(), 'package': None, ...})
InitialConfig ==
    (Key("", "debug") :> FalseV)
        @@ (Key("tg.", "app_globals") :> Obj("Bunch"))
        @@ (Key("", "package") :> NoneV)
        @@ (Key("", "package_name") :> NoneV)
        @@ (Key("", "paths") :> Obj("Bunch"))

\* CONFIG_NAMESPACE of a feature class; K and J stand for the feature
\* classes of an application
ConfigNamespace(c) ==
    CASE c = "I18NSupport" -> "i18n."
      [] c = "TemplateEnginesSupport" -> "templating."
      [] c = "RegistrySupport" -> "registry."
      [] c = "K" -> "k."
      [] OTHER -> "j."

\* CONFIG_DEFAULTS of a feature class, by option name. A list of renderers
\* is a sequence of names; a TemplateEngines object and the render_functions
\* dict are the set of engine names they hold.
ConfigDefaults(c) ==
    CASE c = "I18NSupport" -> ("enabled" :> FalseV) @@ ("lang" :> NoneV)
      [] c = "TemplateEnginesSupport" ->
            ("auto_reload" :> TrueV) @@ ("renderers" :> <<>>) @@ ("default" :> Str("genshi"))
                @@ ("engines" :> {}) @@ ("render_functions" :> {})
      [] c = "RegistrySupport" -> ("streaming" :> TrueV)
      [] c = "K" -> ("opt" :> Str("k_default"))
      [] OTHER -> EmptyDict

\* ConfigurationFeature.__init__(config): every default is written into
\* config under CONFIG_NAMESPACE + name, over what the key held
WriteDefaults(c, config) ==
    LET defaults == ConfigDefaults(c)
        ns == ConfigNamespace(c)
    IN  [k \in (DOMAIN config) \cup {Key(ns, name) : name \in DOMAIN defaults} |->
            IF k.ns = ns /\ k.name \in DOMAIN defaults THEN defaults[k.name] ELSE config[k]]

\* get_partial_dict(prefix, dictionary, Bunch): a new Bunch of the items
\* whose key starts with prefix, keyed by the rest of the key; it holds the
\* very objects dictionary holds
GetPartialDict(prefix, dictionary) ==
    [name \in {k.name : k \in {x \in DOMAIN dictionary : x.ns = prefix}} |->
        dictionary[Key(prefix, name)]]

\* a call that changes in place the object tmpl_conf holds under name
\* (list.append, list.remove, TemplateEngines.add, dict.update): config
\* holds the same object under prefix + name, and sees the change
InPlace(conf, prefix, name, value) ==
    [config |-> [conf.config EXCEPT ![Key(prefix, name)] = value],
     tmpl_conf |-> [conf.tmpl_conf EXCEPT ![name] = value]]

\* tmpl_conf.name = value: the Bunch get_partial_dict made holds value
\* under name; config is another dict
SetAttr(conf, prefix, name, value) ==
    [config |-> conf.config,
     tmpl_conf |-> [conf.tmpl_conf EXCEPT ![name] = value]]

Elements(seq) == {seq[i] : i \in 1..Len(seq)}

\* the engines of JSONRenderer, GenshiRenderer, MakoRenderer, JinjaRenderer
\* and KajikiRenderer
RendererEngines == {"json", "genshi", "mako", "jinja", "kajiki"}

\* TemplateEnginesSupport.configure(config)
ConfigureTemplating(config) ==
    LET prefix == ConfigNamespace("TemplateEnginesSupport")
        c0 == [config |-> config, tmpl_conf |-> GetPartialDict(prefix, config)]
        c1 == InPlace(c0, prefix, "engines", c0.tmpl_conf["engines"] \cup RendererEngines)
        c2 == IF "json" \notin Elements(c1.tmpl_conf["renderers"])
              THEN InPlace(c1, prefix, "renderers", Append(c1.tmpl_conf["renderers"], "json"))
              ELSE c1
    IN  IF c2.tmpl_conf["default"].cls \notin Elements(c2.tmpl_conf["renderers"])
        THEN SetAttr(c2, prefix, "default", Str(c2.tmpl_conf["renderers"][1]))
        ELSE c2

\* RegistrySupport.configure(config)
ConfigureRegistry(config) ==
    IF Key("", "registry_streaming") \in DOMAIN config
    THEN [config EXCEPT ![Key("registry.", "streaming")] = config[Key("", "registry_streaming")]]
    ELSE config

\* config_step.configure(self.config): what config holds when it returns
Configure(f, config) ==
    CASE f.cls = "TemplateEnginesSupport" -> ConfigureTemplating(config).config
      [] f.cls = "RegistrySupport" -> ConfigureRegistry(config)
      [] OTHER -> config

\* for config_step in self._features: config_step.configure(self.config):
\* what config holds at the return of each call
RECURSIVE ConfigureLoop(_, _)
ConfigureLoop(features, config) ==
    IF features = <<>> THEN <<>>
    ELSE LET out == Configure(Head(features), config)
         IN  << out >> \o ConfigureLoop(Tail(features), out)

\* self.config.update(app_config or {}); self.config.update(env_config or {})
MergeOptionsEnvFirst(config, app_config, env_config) ==
    DictUpdate(DictUpdate(config, env_config), app_config)
MergeOptions(config, app_config, env_config) ==
    DictUpdate(DictUpdate(config, app_config), env_config)

\* Configurator._configure(app_config, env_config) on config: what config
\* holds at the end, what it held at the start of the first configure step,
\* and what it held at the return of each TemplateEnginesSupport.configure
RunConfigure(features, config, app_config, env_config) ==
    LET merged == MergeOptions(config, app_config, env_config)
        outs == ConfigureLoop(features, merged)
    IN  [config |-> IF outs = <<>> THEN merged ELSE outs[Len(outs)],
         at_start |-> merged,
         templating_out |->
            {outs[i] : i \in {j \in 1..Len(outs) : features[j].cls = "TemplateEnginesSupport"}}]

\* ----------------------------------------------------------------- state
VARIABLES
    dependencies,       \* ListWithPrecedence._dependencies
    ordered_elements,   \* ListWithPrecedence._ordered_elements
    calls,              \* the add(obj, after) calls made so far, in order
    yielded,            \* what the iterations since the last add yielded (the last two)
    log,                \* the calls the last make_wsgi_app made, in order
    app,                \* the application the last make_wsgi_app returned
    config,             \* Configurator.config
    configured,         \* the options _configure was given, what config held at
                        \* the start of its first configure step and at the
                        \* return of each TemplateEnginesSupport.configure
    request             \* the SessionApplicationWrapper.__call__ under way: where it
                        \* is, what it has put in context and environ, the session's
                        \* state, the headers of the response as the handler returned
                        \* it and as they are now, and the calls made so far

vars == << dependencies, ordered_elements, calls, yielded, log, app, config, configured,
           request >>

\* no __call__ was made
NoRequest ==
    [pc |-> "idle", context |-> {}, environ |-> {}, testing_variables |-> {},
     accessed |-> FALSE, set_cookie |-> FALSE, cookie_out |-> NoneV,
     returned |-> <<>>, headers |-> <<>>, trace |-> <<>>]

\* _configure was not called
Unconfigured ==
    [app_config |-> EmptyDict, env_config |-> EmptyDict,
     at_start |-> EmptyDict, templating_out |-> {}]

\* ---------------------------------------------------------------- inputs
Classes == {"K", "J"}

ClassObjects == {ClassObj(c) : c \in Classes}

Added == {calls[i].obj : i \in 1..Len(calls)}

\* the instances of class c created so far are numbered in creation order
Created(c) == {o \in Added : o.kind = "inst" /\ o.cls = c}

FreshInstances ==
    {Inst(c, Cardinality(Created(c)) + 1) : c \in {x \in Classes : Cardinality(Created(x)) < MaxInst}}

\* what add() may be handed as obj: a class, an object added before, a new instance
AddObjects == ClassObjects \cup Added \cup FreshInstances

\* what add() may be handed as after
AfterKeys == {NoneV, FalseV} \cup ClassObjects \cup Added

\* what add_feature() may be handed as after
FeatureAfterKeys == {NoneV} \cup {ClassObj(c) : c \in Builtins \cup Classes}

\* ------------------------------------------------ ListWithPrecedence actions
\* ListWithPrecedence.__init__
Init ==
    /\ dependencies = EmptyDict
    /\ ordered_elements = <<>>
    /\ calls = <<>>
    /\ yielded = <<>>
    /\ log = <<>>
    /\ app = NoApp
    /\ config = EmptyDict
    /\ configured = Unconfigured
    /\ request = NoRequest

\* the body of ListWithPrecedence.add(obj, after)
ListAdd(obj, after) ==
    /\ LET r == ResolveOrdering(SetDefaultAppend(dependencies, after, obj))
       IN  /\ dependencies' = r.dependencies
           /\ ordered_elements' = r.ordered_elements
    /\ calls' = Append(calls, [obj |-> obj, after |-> after])
    /\ yielded' = <<>>

\* ListWithPrecedence.add(obj, after)
Add(obj, after) ==
    /\ Len(calls) < MaxAdds
    /\ ListAdd(obj, after)
    /\ UNCHANGED << log, app, config, configured, request >>

\* ListWithPrecedence.__iter__, run to the end
Iterate ==
    /\ yielded' = IF Len(yielded) < 2 THEN Append(yielded, ordered_elements)
                  ELSE << yielded[2], ordered_elements >>
    /\ UNCHANGED << dependencies, ordered_elements, calls, log, app,
                    config, configured, request >>

\* ListWithPrecedence._resolve_ordering, called on its own
Resolve ==
    /\ LET r == ResolveOrdering(dependencies)
       IN  /\ dependencies' = r.dependencies
           /\ ordered_elements' = r.ordered_elements
    /\ UNCHANGED << calls, yielded, log, app, config, configured, request >>

AddAny == \E obj \in AddObjects, after \in AfterKeys : Add(obj, after)

Next == AddAny \/ Iterate \/ Resolve

Spec == Init /\ [][Next]_vars

\* ------------------------------------------------------ Configurator actions
\* the add_feature calls of Configurator.__init__
ConstructorClasses == << "I18NSupport", "TemplateEnginesSupport", "RegistrySupport" >>

\* config after the constructors of the features of classes cs, in order
RECURSIVE Constructed(_, _)
Constructed(cs, cfg) ==
    IF cs = <<>> THEN cfg ELSE Constructed(Tail(cs), WriteDefaults(Head(cs), cfg))

ConstructorCalls ==
    << [obj |-> Inst("I18NSupport", 1), after |-> NoneV],
       [obj |-> Inst("TemplateEnginesSupport", 1), after |-> NoneV],
       [obj |-> Inst("RegistrySupport", 1), after |-> ClassObj("TemplateEnginesSupport")] >>

\* a ListWithPrecedence after the add calls cs, made on a new one
RECURSIVE AddAll(_)
AddAll(cs) ==
    IF cs = <<>> THEN [dependencies |-> EmptyDict, ordered_elements |-> <<>>]
    ELSE LET n == Len(cs)
         IN  ResolveOrdering(SetDefaultAppend(AddAll(SubSeq(cs, 1, n - 1)).dependencies,
                                              cs[n].after, cs[n].obj))

\* Configurator.__init__
InitConf ==
    /\ dependencies = AddAll(ConstructorCalls).dependencies
    /\ ordered_elements = AddAll(ConstructorCalls).ordered_elements
    /\ calls = ConstructorCalls
    /\ yielded = <<>>
    /\ log = <<>>
    /\ app = NoApp
    /\ config = Constructed(ConstructorClasses, InitialConfig)
    /\ configured = Unconfigured
    /\ request = NoRequest

\* Configurator.add_feature(feature, after): feature(self.config) is a new
\* instance of the class, whose constructor writes the defaults of the class
\* into config; what an earlier make_wsgi_app returned is forgotten
AddFeature(c, after) ==
    /\ Len(calls) < Len(ConstructorCalls) + MaxFeatures
    /\ ListAdd(Inst(c, Cardinality(Created(c)) + 1), after)
    /\ config' = WriteDefaults(c, config)
    /\ log' = <<>>
    /\ app' = NoApp
    /\ UNCHANGED << configured, request >>

\* Configurator.make_wsgi_app(env_config, **app_config), by the calls it
\* makes and the application it returns; what _configure does to the
\* options is followed by ConfigureOptions
MakeWsgiApp(hooks, raise_at) ==
    /\ LET r == RunMakeWsgiApp(ordered_elements, hooks, raise_at)
       IN  /\ log' = r.log
           /\ app' = r.app
    /\ UNCHANGED << dependencies, ordered_elements, calls, yielded, config, configured,
                    request >>

AddFeatureAny == \E c \in Classes, after \in FeatureAfterKeys : AddFeature(c, after)

MakeWsgiAppAny ==
    \E hooks \in SUBSET HookNames, raise_at \in 0..(3 * Len(ordered_elements) + 2) :
        MakeWsgiApp(hooks, raise_at)

NextConf == AddFeatureAny \/ MakeWsgiAppAny

SpecConf == InitConf /\ [][NextConf]_vars

\* ------------------------------------------- Configurator with its options
\* the dict holding key when a value is given for it: vals is << >> or
\* << value >>
Given(key, vals) == IF vals = <<>> THEN EmptyDict ELSE key :> vals[1]

TemplatingDefault == Key("templating.", "default")
TemplatingRenderers == Key("templating.", "renderers")

\* **app_config
AppConfigs ==
    {Given(TemplatingDefault, d) @@ Given(TemplatingRenderers, r) @@ Given(Key("k.", "opt"), o) :
        d \in {<<>>, << Str("json") >>, << Str("mako") >>},
        r \in {<<>>, << <<>> >>, << << "mako" >> >>, << << "json", "genshi" >> >>},
        o \in {<<>>, << Str("app") >>}}

\* env_config
EnvConfigs ==
    {Given(TemplatingDefault, d) @@ Given(TemplatingRenderers, r)
            @@ Given(Key("", "registry_streaming"), s) :
        d \in {<<>>, << Str("kajiki") >>},
        r \in {<<>>, << << "chameleon" >> >>},
        s \in {<<>>, << FalseV >>}}

\* Configurator._configure(app_config, env_config), the first step of
\* make_wsgi_app
ConfigureOptions(env_config, app_config) ==
    /\ LET r == RunConfigure(ordered_elements, config, app_config, env_config)
       IN  /\ config' = r.config
           /\ configured' = [app_config |-> app_config, env_config |-> env_config,
                             at_start |-> r.at_start,
                             templating_out |-> r.templating_out]
    /\ UNCHANGED << dependencies, ordered_elements, calls, yielded, log, app, request >>

\* add_feature(F, after) for any feature class F, at the root or after
\* TemplateEnginesSupport, before make_wsgi_app is called
AddFeatureFirst ==
    /\ configured = Unconfigured
    /\ \E c \in Classes \cup Builtins, after \in {NoneV, ClassObj("TemplateEnginesSupport")} :
          AddFeature(c, after)

\* the _configure of make_wsgi_app(env_config, **app_config), called once
ConfigureOptionsAny ==
    /\ configured = Unconfigured
    /\ \E env_config \in EnvConfigs, app_config \in AppConfigs :
          ConfigureOptions(env_config, app_config)

NextOpt == AddFeatureFirst \/ ConfigureOptionsAny

SpecOpt == InitConf /\ [][NextOpt]_vars

\* ------------------------------------------- SessionApplicationWrapper
\* bool(cookie): None and the empty string are false
Truthy(v) == v # NoneV /\ v # Str("")

\* session.__dict__['_headers']['set_cookie'] holds and cookie_out is true
ShouldSetCookieAnyFlag(r) == Truthy(r.cookie_out)
ShouldSetCookie(r) == r.set_cookie /\ Truthy(r.cookie_out)

\* what the handler may put in the headers of its response
HandlerHeaders ==
    {<<>>, << << "Content-Type", "text/html" >> >>,
     << << "Content-Type", "text/html" >>, << "Set-cookie", "lang=en" >> >>}

\* what session.__dict__['_headers']['cookie_out'] may hold
CookieValues == {NoneV, Str(""), Str("beaker.session.id=1")}

\* SessionApplicationWrapper.__init__(handler, config)
InitSession ==
    /\ request = NoRequest
    /\ dependencies = EmptyDict
    /\ ordered_elements = <<>>
    /\ calls = <<>>
    /\ yielded = <<>>
    /\ log = <<>>
    /\ app = NoApp
    /\ config = EmptyDict
    /\ configured = Unconfigured

\* __call__(controller, environ, context) up to the call of the handler:
\* the session is put in context.session, environ['beaker.session'] and,
\* when environ has paste.testing_variables, in its 'session'
EnterCall(testing) ==
    /\ request.pc \in {"idle", "done", "raised"}
    /\ request' = [NoRequest EXCEPT
            !.pc = "placed",
            !.context = {"session"},
            !.environ = {"beaker.session", "beaker.get_session"}
                            \cup (IF testing THEN {"paste.testing_variables"} ELSE {}),
            !.testing_variables = IF testing THEN {"session"} ELSE {},
            !.trace = << "place" >>]
    /\ UNCHANGED << dependencies, ordered_elements, calls, yielded, log, app,
                    config, configured >>

\* response = self.handler(controller, environ, context): the handler may
\* use the session, and returns a response or raises
InvokeHandler(accessed, raises, headers) ==
    /\ request.pc = "placed"
    /\ request' = [request EXCEPT
            !.pc = IF raises THEN "raised" ELSE "returned",
            !.accessed = accessed,
            !.returned = IF raises THEN <<>> ELSE headers,
            !.headers = IF raises THEN <<>> ELSE headers,
            !.trace = IF raises THEN Append(@, "handler")
                      ELSE @ \o << "handler", "returned" >>]
    /\ UNCHANGED << dependencies, ordered_elements, calls, yielded, log, app,
                    config, configured >>

\* if session.accessed(): session.persist(), which leaves the session's
\* set_cookie flag and cookie_out
Persist(set_cookie, cookie_out) ==
    /\ request.pc = "returned"
    /\ request.accessed
    /\ request' = [request EXCEPT
            !.pc = "persisted",
            !.set_cookie = set_cookie,
            !.cookie_out = cookie_out,
            !.trace = Append(@, "persist")]
    /\ UNCHANGED << dependencies, ordered_elements, calls, yielded, log, app,
                    config, configured >>

\* if session.accessed(), when it was not
SkipPersist ==
    /\ request.pc = "returned"
    /\ ~request.accessed
    /\ request' = [request EXCEPT !.pc = "responding"]
    /\ UNCHANGED << dependencies, ordered_elements, calls, yielded, log, app,
                    config, configured >>

\* if ...['set_cookie']: cookie = ...['cookie_out']; if cookie:
\*     response.headers.extend((('Set-cookie', cookie),))
SetCookie ==
    /\ request.pc = "persisted"
    /\ request' = IF ShouldSetCookie(request)
                  THEN [request EXCEPT
                            !.pc = "responding",
                            !.headers = Append(@, << "Set-cookie", request.cookie_out.cls >>),
                            !.trace = Append(@, "set_cookie")]
                  ELSE [request EXCEPT !.pc = "responding"]
    /\ UNCHANGED << dependencies, ordered_elements, calls, yielded, log, app,
                    config, configured >>

\* return response
Return ==
    /\ request.pc = "responding"
    /\ request' = [request EXCEPT !.pc = "done", !.trace = Append(@, "return")]
    /\ UNCHANGED << dependencies, ordered_elements, calls, yielded, log, app,
                    config, configured >>

EnterCallAny == \E testing \in BOOLEAN : EnterCall(testing)

InvokeHandlerAny ==
    \E accessed \in BOOLEAN, raises \in BOOLEAN, headers \in HandlerHeaders :
        InvokeHandler(accessed, raises, headers)

PersistAny == \E set_cookie \in BOOLEAN, cookie_out \in CookieValues : Persist(set_cookie, cookie_out)

NextSession ==
    EnterCallAny \/ InvokeHandlerAny \/ PersistAny \/ SkipPersist \/ SetCookie \/ Return

SpecSession == InitSession /\ [][NextSession]_vars

\* ------------------------------------------------- vocabulary of the claims
\* the entries of the current order, with where the walk found each
Trace == Walk(dependencies).visited

Count(seq, o) == Cardinality({i \in 1..Len(seq) : seq[i] = o})

Occurs(seq, o) == \E i \in 1..Len(seq) : seq[i] = o

Range(seq) == {seq[i] : i \in 1..Len(seq)}

CalledObjects == [i \in 1..Len(calls) |-> calls[i].obj]

DistinctCalls == \A i, j \in 1..Len(calls) : calls[i].obj = calls[j].obj => i = j

\* a step that is one add(obj, after) call, and that call
IsAddStep == Len(calls') = Len(calls) + 1

LastCall == calls'[Len(calls')]

\* e is the class k, or an instance of the class k
OfKind(e, k) == IsClass(k) /\ (e = k \/ (e.kind = "inst" /\ e.cls = k.cls))

\* some element of the order seq is the class k or an instance of it
HasCategory(seq, k) == \E i \in 1..Len(seq) : OfKind(seq[i], k)

\* the dependency dict that the calls alone describe
RECURSIVE Replay(_)
Replay(cs) ==
    IF cs = <<>> THEN EmptyDict
    ELSE LET n == Len(cs)
         IN  SetDefaultAppend(Replay(SubSeq(cs, 1, n - 1)), cs[n].after, cs[n].obj)

\* ---------------------------------------------------------------------- C3
\* C3: when every add call so far used after=None, the ordered sequence is
\* exactly the added features in the order of the add calls.
C3_InsertionOrder ==
    (\A i \in 1..Len(calls) : calls[i].after = NoneV) => ordered_elements = CalledObjects

\* three root-level adds of different features have been made
C3_Witness ==
    /\ Len(calls) = 3
    /\ \A i \in 1..Len(calls) : calls[i].after = NoneV
    /\ DistinctCalls
    /\ ordered_elements = CalledObjects

\* ---------------------------------------------------------------------- C4
\* C4 as stated: with pairwise distinct added objects, every added feature
\* occurs in the ordered sequence exactly once.
C4_ExactlyOnce ==
    DistinctCalls => \A i \in 1..Len(calls) : Count(ordered_elements, calls[i].obj) = 1

\* the after key of a call is looked up by the walk: it is a seed (None,
\* False) or the category of an element of the order
Anchored(after) == after \in {NoneV, FalseV} \/ HasCategory(ordered_elements, after)

\* C4 amended: with pairwise distinct added objects, every added feature
\* occurs at most once, and exactly once when its after key is None, False
\* or the category of a feature of the ordered sequence; several features
\* with the same after key included.
C4_AtMostOnce ==
    DistinctCalls =>
        \A i \in 1..Len(calls) :
            /\ Count(ordered_elements, calls[i].obj) <= 1
            /\ Anchored(calls[i].after) => Count(ordered_elements, calls[i].obj) = 1
            /\ ~Anchored(calls[i].after) => Count(ordered_elements, calls[i].obj) = 0

\* two different features were added after the same class, one of whose
\* instances is in the order: both are in the order
C4_Witness ==
    /\ DistinctCalls
    /\ Len(calls) = 3
    /\ calls[2].after = calls[3].after
    /\ IsClass(calls[2].after)
    /\ calls[1].obj.kind = "inst"
    /\ ClassOf(calls[1].obj) = calls[2].after
    /\ Len(ordered_elements) = 3

\* ---------------------------------------------------------------------- C5
\* the case of C5: f is new, k is not None, and no element of the order is
\* the class k or an instance of it
C5_Case(f, k) ==
    /\ f \notin Added
    /\ k # NoneV
    /\ ~HasCategory(ordered_elements, k)

C5_Effect(f) ==
    /\ ~Occurs(ordered_elements', f)
    /\ ordered_elements' = ordered_elements

\* C5 as stated: add(f, after=k) with k not None and no element of class k
\* leaves f out of the order and the order as it was.
C5_Unreachable ==
    [][IsAddStep /\ C5_Case(LastCall.obj, LastCall.after) => C5_Effect(LastCall.obj)]_vars

\* C5 amended: the same, for k neither None nor False (False is the walk's
\* other seed: a feature added after=False is emitted, ahead of the roots).
C5_UnreachableNotFalse ==
    [][IsAddStep /\ C5_Case(LastCall.obj, LastCall.after) /\ LastCall.after # FalseV
        => C5_Effect(LastCall.obj)]_vars

\* a new feature was added after a class none of whose instances is in the
\* order, which held two elements already
C5_Witness ==
    /\ Len(calls) = 3
    /\ DistinctCalls
    /\ IsClass(calls[3].after)
    /\ Len(ordered_elements) = 2
    /\ ~HasCategory(ordered_elements, calls[3].after)
    /\ ~Occurs(ordered_elements, calls[3].obj)

\* ---------------------------------------------------------------------- C1
FirstPos(seq, o) == CHOOSE i \in 1..Len(seq) : seq[i] = o /\ \A j \in 1..(i - 1) : seq[j] # o

\* the add call of this step put b after a, after the features added with
\* after=prior_key before this call, and before every root-level element
\* that follows a
PlacedAfter(a, b, prior_key) ==
    LET new == ordered_elements'
        tr == Walk(dependencies').visited
        prior == DictGet(dependencies, prior_key, <<>>)
    IN  /\ Occurs(new, a)
        /\ \E pb \in 1..Len(new) :
              /\ new[pb] = b
              /\ FirstPos(new, a) < pb
              /\ \A i \in 1..Len(prior) : \E pd \in 1..(pb - 1) : new[pd] = prior[i]
              /\ \A r \in (FirstPos(new, a) + 1)..Len(new) : tr[r].depth = 0 => pb < r

\* add(A), add(B, after=A), add(C) iterates as [A, B, C]
ScenarioABC(cs) ==
    /\ Len(cs) = 3
    /\ cs[1].after = NoneV /\ cs[2].after = cs[1].obj /\ cs[3].after = NoneV

\* add(X), add(Y), add(Z, after=X) iterates as [X, Z, Y]
ScenarioXYZ(cs) ==
    /\ Len(cs) = 3
    /\ cs[1].after = NoneV /\ cs[2].after = NoneV /\ cs[3].after = cs[1].obj

\* C1 as stated: for any feature a added before, instance or class,
\* add(b, after=a) puts b after a and a's earlier dependents and before the
\* root-level siblings that follow a; and the two scenarios.
C1_AfterAdded ==
    /\ [][IsAddStep /\ LastCall.after \in Added
            => PlacedAfter(LastCall.after, LastCall.obj, LastCall.after)]_vars
    /\ [](ScenarioABC(calls) => ordered_elements = << calls[1].obj, calls[2].obj, calls[3].obj >>)
    /\ [](ScenarioXYZ(calls) => ordered_elements = << calls[1].obj, calls[3].obj, calls[2].obj >>)

\* a is a feature class that is in the order, with no instance of it earlier
LeadingClass(a) ==
    /\ IsClass(a)
    /\ Occurs(ordered_elements, a)
    /\ \A j \in 1..(FirstPos(ordered_elements, a) - 1) : ~OfKind(ordered_elements[j], a)

\* C1 amended: the same for a feature class a that is in the ordered
\* sequence with no instance of a before it; the scenarios with A and X
\* feature classes.
C1_AfterClass ==
    /\ [][IsAddStep /\ LeadingClass(LastCall.after)
            => PlacedAfter(LastCall.after, LastCall.obj, LastCall.after)]_vars
    /\ [](ScenarioABC(calls) /\ IsClass(calls[1].obj)
            => ordered_elements = << calls[1].obj, calls[2].obj, calls[3].obj >>)
    /\ [](ScenarioXYZ(calls) /\ IsClass(calls[1].obj)
            => ordered_elements = << calls[1].obj, calls[3].obj, calls[2].obj >>)

\* add(X), add(Y), add(Z, after=X) was run with X a class and three
\* different features, and Z sits between X and Y
C1_Witness ==
    /\ ScenarioXYZ(calls)
    /\ IsClass(calls[1].obj)
    /\ DistinctCalls
    /\ ordered_elements = << calls[1].obj, calls[3].obj, calls[2].obj >>

\* ---------------------------------------------------------------------- C2
\* the last position of the block of position p in the entries tr: the
\* entries after p that lie deeper than p
BlockEnd(tr, p) ==
    CHOOSE e \in p..Len(tr) :
        /\ \A q \in (p + 1)..e : tr[q].depth > tr[p].depth
        /\ e = Len(tr) \/ tr[e + 1].depth <= tr[p].depth

\* the add call of this step, add(c, after=k), put c after the element at
\* position p of the order as it was, after the features added with after=k
\* before, and before everything that followed the block of p
PlacedAfterBlock(p, c, k) ==
    LET old == ordered_elements
        new == ordered_elements'
        e == BlockEnd(Trace, p)
    IN  /\ PlacedAfter(old[p], c, k)
        /\ \E pc \in 1..Len(new) :
              /\ new[pc] = c
              /\ FirstPos(new, old[p]) < pc
              /\ \A q \in (e + 1)..Len(old) : \E q2 \in (pc + 1)..Len(new) : new[q2] = old[q]

\* C2 as stated: for an instance of class K in the order, add(c, after=K)
\* puts c in the order after that instance, after the earlier dependents of
\* K, and before what followed the instance's block. Stated for a new
\* feature c and an order that holds instances only, where it fails already.
C2_AfterCategory ==
    [][IsAddStep /\ LastCall.obj \notin Added
             /\ (\A i \in 1..Len(ordered_elements) : ordered_elements[i].kind = "inst") =>
        \A p \in 1..Len(ordered_elements) :
            ordered_elements[p].kind = "inst" /\ ClassOf(ordered_elements[p]) = LastCall.after
                => PlacedAfterBlock(p, LastCall.obj, LastCall.after)]_vars

\* position p holds the first element of the order that is the class k or
\* an instance of it
LeadsCategory(p, k) ==
    /\ OfKind(ordered_elements[p], k)
    /\ \A j \in 1..(p - 1) : ~OfKind(ordered_elements[j], k)

\* C2 amended: the same for the instance of K that no other instance of K,
\* and not the class K itself, precedes in the order.
C2_AfterFirstOfCategory ==
    [][IsAddStep =>
        \A p \in 1..Len(ordered_elements) :
            ordered_elements[p].kind = "inst" /\ LeadsCategory(p, LastCall.after)
                => PlacedAfterBlock(p, LastCall.obj, LastCall.after)]_vars

\* [k, y] with k an instance of K, then add(c, after=K): [k, c, y]
C2_Witness ==
    /\ Len(calls) = 3
    /\ DistinctCalls
    /\ calls[1].after = NoneV /\ calls[2].after = NoneV
    /\ calls[1].obj.kind = "inst"
    /\ calls[3].after = ClassOf(calls[1].obj)
    /\ ~OfKind(calls[2].obj, calls[3].after)
    /\ ordered_elements = << calls[1].obj, calls[3].obj, calls[2].obj >>

\* ---------------------------------------------------------------------- C6
\* C6 as stated: breadth-first order, so that a feature at depth d is never
\* yielded after a feature at depth d + 1.
C6_BreadthFirst ==
    LET tr == Trace
    IN  /\ Objects(tr) = ordered_elements
        /\ DistinctCalls => \A i, j \in 1..Len(tr) : i < j => tr[i].depth # tr[j].depth + 1

\* the entry at position j was queued by the visit of the entry at its
\* anchor, from the list its anchor's category keys, and lies in its block
UnderAnchor(tr, j) ==
    LET p == tr[j].anchor
    IN  /\ p < j
        /\ tr[j].obj = dependencies[tr[j].key][tr[j].idx]
        /\ p = 0 => tr[j].depth = 0 /\ tr[j].key \in {FalseV, NoneV}
        /\ p > 0 => /\ tr[j].depth = tr[p].depth + 1
                    /\ OfKind(tr[p].obj, tr[j].key)
                    /\ \A q \in (p + 1)..j : tr[q].depth > tr[p].depth

\* pre-order: the first dependant directly follows its anchor, and each
\* further one directly follows the block of the sibling added before it
\* (after=False roots before after=None roots)
PreOrder(tr, j) ==
    LET before == {i \in 1..(j - 1) : tr[i].anchor = tr[j].anchor}
    IN  /\ \A i \in before :
              \/ tr[i].key = tr[j].key /\ tr[i].idx < tr[j].idx
              \/ tr[i].key = FalseV /\ tr[j].key = NoneV
        /\ before = {} => j = tr[j].anchor + 1
        /\ before # {} =>
              \E i \in before : /\ \A i2 \in before : i2 <= i
                                /\ j = BlockEnd(tr, i) + 1

\* C6 amended: depth-first, pre-order: the root-level features in insertion
\* order (those added after=False ahead of those added after=None), the
\* first feature of each category followed at once by the block of the
\* dependants of that category, in insertion order, and so on recursively.
C6_DepthFirst ==
    LET tr == Trace
    IN  /\ Objects(tr) = ordered_elements
        /\ \A j \in 1..Len(tr) : UnderAnchor(tr, j) /\ PreOrder(tr, j)

\* a root-level feature is yielded after another root's dependant
C6_Witness ==
    LET tr == Trace
    IN  /\ Len(tr) = 3
        /\ tr[1].depth = 0 /\ tr[2].depth = 1 /\ tr[3].depth = 0
        /\ tr[2].anchor = 1
        /\ Objects(tr) = ordered_elements

\* ---------------------------------------------------------------------- C8
\* C8: a step that is no add call (an iteration, a recomputation of the
\* order) leaves the dependency dict and the ordered sequence as they were;
\* the dependency dict is at all times the one the add calls describe, so
\* recomputing the order took nothing from it; two iterations with no add
\* in between yield the same sequence.
C8_IterationFrame ==
    /\ [][calls' = calls =>
            dependencies' = dependencies /\ ordered_elements' = ordered_elements]_vars
    /\ [](dependencies = Replay(calls))
    /\ [](Len(yielded) = 2 => yielded[1] = yielded[2])

\* two iterations have run since the last add, over an order with a
\* dependant in it
C8_Witness ==
    /\ Len(yielded) = 2
    /\ yielded[2] = ordered_elements
    /\ Len(ordered_elements) >= 2
    /\ \E k \in DOMAIN dependencies : k \notin {NoneV, FalseV} /\ HasCategory(ordered_elements, k)

\* --------------------------------------------------------------------- C10
InstancePositions(tr, c) == {p \in 1..Len(tr) : tr[p].obj.kind = "inst" /\ tr[p].obj.cls = c}

KindPositions(tr, c) == {p \in 1..Len(tr) : OfKind(tr[p].obj, ClassObj(c))}

\* the features added with after=K are in the order once each, the first
\* of them directly after position first, and each queued by the visit of
\* that position
EmittedOnceAfter(tr, c, first) ==
    LET added == DictGet(dependencies, ClassObj(c), <<>>)
        emitted == {j \in 1..Len(tr) : tr[j].key = ClassObj(c)}
    IN  /\ Cardinality(emitted) = Len(added)
        /\ \A i \in 1..Len(added) : \E j \in emitted : tr[j].idx = i /\ tr[j].obj = added[i]
        /\ \A j \in emitted : tr[j].anchor = first
        /\ added # <<>> => first < Len(tr) /\ tr[first + 1].key = ClassObj(c)

Lowest(ps) == CHOOSE p \in ps : \A q \in ps : p <= q

\* C10 as stated: with two or more instances of K in the order, the
\* features added with after=K are emitted once, directly after the first
\* instance of K.
C10_AfterFirstInstance ==
    LET tr == Trace
    IN  /\ Objects(tr) = ordered_elements
        /\ \A c \in Classes :
              DistinctCalls /\ Cardinality(InstancePositions(tr, c)) >= 2
                  => EmittedOnceAfter(tr, c, Lowest(InstancePositions(tr, c)))

\* C10 amended: with two or more instances of K in the order, the features
\* added with after=K are emitted once, directly after the first element of
\* the order that is an instance of K or the class K itself, and after no
\* later one.
C10_AfterFirstOfKind ==
    LET tr == Trace
    IN  /\ Objects(tr) = ordered_elements
        /\ \A c \in Classes :
              Cardinality(InstancePositions(tr, c)) >= 2
                  => EmittedOnceAfter(tr, c, Lowest(KindPositions(tr, c)))

\* two instances of K at the root and a feature added after=K, emitted
\* between them
C10_Witness ==
    LET tr == Trace
    IN  \E c \in Classes :
            /\ Len(tr) = 3
            /\ InstancePositions(tr, c) = {1, 3}
            /\ tr[2].key = ClassObj(c)
            /\ tr[2].anchor = 1
            /\ Objects(tr) = ordered_elements

\* ---------------------------------------------------------------------- C9
Rank(op) ==
    CASE op = "configure" -> 1
      [] op = "setup" -> 2
      [] op = "before_config" -> 3
      [] op = "add_middleware" -> 4
      [] op = "after_config" -> 5

\* the features the calls named op were made on, in the order of the calls
RECURSIVE FeaturesOf(_, _)
FeaturesOf(events, op) ==
    IF events = <<>> THEN <<>>
    ELSE IF Head(events).op = op THEN << Head(events).f >> \o FeaturesOf(Tail(events), op)
    ELSE FeaturesOf(Tail(events), op)

IsPrefix(s, t) == Len(s) <= Len(t) /\ \A i \in 1..Len(s) : s[i] = t[i]

Reached(op) == \E i \in 1..Len(log) : Rank(log[i].op) >= Rank(op)

\* C9: the calls of a make_wsgi_app run come in the order configure, setup,
\* before_config, add_middleware, after_config; each of configure, setup and
\* add_middleware goes through the features in registry order, once each,
\* and is through all of them before the next kind of call starts; each
\* add_middleware and the after_config hook receive the application the
\* call before returned; the application returned is what after_config
\* returned.
C9_LifecycleOrder ==
    /\ \A i, j \in 1..Len(log) : i < j => Rank(log[i].op) <= Rank(log[j].op)
    /\ \A op \in {"configure", "setup", "add_middleware"} :
          /\ IsPrefix(FeaturesOf(log, op), ordered_elements)
          /\ Reached(op) /\ (\E i \in 1..Len(log) : Rank(log[i].op) > Rank(op))
                => FeaturesOf(log, op) = ordered_elements
    /\ \A op \in HookNames : Cardinality({i \in 1..Len(log) : log[i].op = op}) <= 1
    /\ \A i \in 1..Len(log) :
          /\ log[i].op = "before_config" => log[i].arg = TGApp
          /\ log[i].op \in {"add_middleware", "after_config"} =>
                i > 1 /\ log[i].arg = log[i - 1].ret /\ Rank(log[i - 1].op) >= 3
    /\ app # NoApp =>
          /\ log[Len(log)].op = "after_config"
          /\ app = log[Len(log)].ret
          /\ Len(log) = 3 * Len(ordered_elements) + 2

\* a run over five features went to its end, with layers added by two
\* features and both hooks
C9_Witness ==
    /\ Len(ordered_elements) = 5
    /\ app # NoApp
    /\ Len(app) = 5
    /\ Len(log) = 17

\* --------------------------------------------------------------------- C11
\* the ordered sequence as it was after the first n add calls
OrderAfter(n) == AddAll(SubSeq(calls, 1, n)).ordered_elements

\* call i was a forward reference: add(b, after=K) with K a class and no
\* element of the order of that moment the class K or an instance of it
ForwardRef(i) ==
    /\ IsClass(calls[i].after)
    /\ ~HasCategory(OrderAfter(i - 1), calls[i].after)

\* call j is the one that brings the first feature of kind k into the order
Introduces(j, k) == ~HasCategory(OrderAfter(j - 1), k) /\ HasCategory(OrderAfter(j), k)

FirstOfKind(seq, k) == seq[Lowest({p \in 1..Len(seq) : OfKind(seq[p], k)})]

\* b is in the order, after x
Follows(b, x) ==
    /\ Occurs(ordered_elements, b)
    /\ Occurs(ordered_elements, x)
    /\ FirstPos(ordered_elements, x) < FirstPos(ordered_elements, b)

\* every feature added so far is an instance, none a class
InstancesOnly(cs) == \A i \in 1..Len(cs) : ~IsClass(cs[i].obj)

\* C11 as stated (features are instances, added once each): a feature b added with after=K
\* while no feature of class K is in the order is absent until an add call
\* brings a feature of class K into the order, and from that call onward b
\* is in the order, after that feature of class K.
C11_AfterIntroducer ==
    DistinctCalls /\ InstancesOnly(calls) =>
        \A i \in 1..Len(calls) :
            ForwardRef(i) =>
                /\ ~HasCategory(ordered_elements, calls[i].after)
                      => ~Occurs(ordered_elements, calls[i].obj)
                /\ \A j \in (i + 1)..Len(calls) :
                      Introduces(j, calls[i].after)
                          => Follows(calls[i].obj, FirstOfKind(OrderAfter(j), calls[i].after))

\* C11 amended: ... and from that call onward b is in the order, after the
\* feature of class K that comes first in the order: the one that call
\* brought in, until a later add call puts another feature of class K ahead
\* of it.
C11_AfterFirstOfKind ==
    DistinctCalls =>
        \A i \in 1..Len(calls) :
            ForwardRef(i) =>
                /\ ~HasCategory(ordered_elements, calls[i].after)
                      => ~Occurs(ordered_elements, calls[i].obj)
                /\ HasCategory(ordered_elements, calls[i].after)
                      => Follows(calls[i].obj, FirstOfKind(ordered_elements, calls[i].after))
                /\ Len(calls) > i /\ Introduces(Len(calls), calls[i].after)
                      => Follows(calls[i].obj, FirstOfKind(OrderAfter(Len(calls)), calls[i].after))

\* a forward reference was made, a root-level feature added, and then an
\* instance of the class referred to: the waiting feature follows it
C11_Witness ==
    /\ DistinctCalls
    /\ Len(calls) = 3
    /\ ForwardRef(1)
    /\ calls[2].after = NoneV /\ calls[3].after = NoneV
    /\ Introduces(3, calls[1].after)
    /\ ordered_elements = << calls[2].obj, calls[3].obj, calls[1].obj >>

\* --------------------------------------------------------------------- C12
\* s is t with some entries left out
RECURSIVE IsSubsequence(_, _)
IsSubsequence(s, t) ==
    IF s = <<>> THEN TRUE
    ELSE IF t = <<>> THEN FALSE
    ELSE IF Head(s) = Head(t) THEN IsSubsequence(Tail(s), Tail(t))
    ELSE IsSubsequence(s, Tail(t))

\* C12 as stated (features are instances, added once each): after any add call, every
\* feature that was in the order is still in it, and any two keep their
\* relative order.
C12_StableOrder ==
    [][IsAddStep /\ InstancesOnly(calls') /\ DistinctCalls' => IsSubsequence(ordered_elements, ordered_elements')]_vars

\* before the call, no feature was waiting on the category of the feature
\* the call adds
NoDependants(obj) == DictGet(dependencies, Category(obj), <<>>) = <<>>

\* C12 amended: after any add call every feature that was in the order is
\* still in it, as many times; any two keep their relative order when no
\* feature had been added with after naming the class of the added feature
\* (or the added feature itself, when it is a class).
C12_StableUnlessAnchor ==
    [][IsAddStep =>
        /\ \A o \in Range(ordered_elements) :
              Count(ordered_elements', o) >= Count(ordered_elements, o)
        /\ NoDependants(LastCall.obj) => IsSubsequence(ordered_elements, ordered_elements')]_vars

\* a feature was inserted ahead of two features that were in the order,
\* which kept their places relative to each other
C12_Witness ==
    /\ Len(calls) = 3
    /\ DistinctCalls
    /\ calls[1].after = NoneV /\ calls[2].after = NoneV
    /\ calls[3].after = FalseV
    /\ ordered_elements = << calls[3].obj, calls[1].obj, calls[2].obj >>

\* --------------------------------------------------------------------- C13
\* some add call named the class of the added feature, or a class whose
\* dependants include a feature of a class that waits on it in turn
CyclicCalls ==
    \E i, j \in 1..Len(calls) :
        /\ IsClass(calls[i].after) /\ IsClass(calls[j].after)
        /\ OfKind(calls[i].obj, calls[j].after)
        /\ OfKind(calls[j].obj, calls[i].after)

\* C13: after every add call, cyclic ones included, the walk has ended
\* with each entry of each dependants list emitted at most once, so the
\* order has at most as many entries as add calls were made.
C13_BoundedOrder ==
    LET tr == Trace
    IN  /\ Objects(tr) = ordered_elements
        /\ Len(ordered_elements) <= Len(calls)
        /\ \A i, j \in 1..Len(tr) :
              tr[i].key = tr[j].key /\ tr[i].idx = tr[j].idx => i = j

\* K after J and J after K, with an instance of K at the root: all three
\* features are in the order
C13_Witness ==
    /\ Len(calls) = 3
    /\ DistinctCalls
    /\ calls[1].after = NoneV
    /\ IsClass(calls[2].after) /\ IsClass(calls[3].after)
    /\ calls[2].after # calls[3].after
    /\ OfKind(calls[2].obj, calls[3].after)
    /\ OfKind(calls[3].obj, calls[2].after)
    /\ Len(ordered_elements) = 3
    /\ CyclicCalls

\* --------------------------------------------------------------------- C14
\* the features add_feature was called for after the constructor, in order
AddedFeatures == [i \in 1..(Len(calls) - Len(ConstructorCalls)) |->
                      calls[i + Len(ConstructorCalls)]]

\* C14: when every add_feature call was made with after=None, the order is
\* the I18NSupport, TemplateEnginesSupport and RegistrySupport instances of
\* the constructor, then the added features in the order of the calls.
C14_BuiltinsThenAdded ==
    (\A i \in 1..Len(AddedFeatures) : AddedFeatures[i].after = NoneV)
        => ordered_elements =
              << Inst("I18NSupport", 1), Inst("TemplateEnginesSupport", 1),
                 Inst("RegistrySupport", 1) >>
                  \o [i \in 1..Len(AddedFeatures) |-> AddedFeatures[i].obj]

\* a second TemplateEnginesSupport and then a K were added at the root
C14_Witness ==
    /\ Len(AddedFeatures) = 2
    /\ AddedFeatures[1] = [obj |-> Inst("TemplateEnginesSupport", 2), after |-> NoneV]
    /\ AddedFeatures[2] = [obj |-> Inst("K", 1), after |-> NoneV]
    /\ Len(ordered_elements) = 5
    /\ ordered_elements[4] = Inst("TemplateEnginesSupport", 2)
    /\ ordered_elements[5] = Inst("K", 1)

\* --------------------------------------------------------------------- C15
\* the classes whose constructor wrote a default under key k
DefaultWriters(k) ==
    {c \in {calls[i].obj.cls : i \in 1..Len(calls)} :
        k.ns = ConfigNamespace(c) /\ k.name \in DOMAIN ConfigDefaults(c)}

\* C15: with every add_feature before make_wsgi_app, at the start of the
\* first configure step each key holds the env_config value if env_config
\* has the key, else the app_config value if app_config has it, else the
\* default the constructor of its feature wrote.
C15_OptionPrecedence ==
    configured # Unconfigured =>
        LET env == configured.env_config
            given == configured.app_config
            at == configured.at_start
        IN  /\ (DOMAIN env) \cup (DOMAIN given) \subseteq DOMAIN at
            /\ \A k \in DOMAIN at :
                  IF k \in DOMAIN env THEN at[k] = env[k]
                  ELSE IF k \in DOMAIN given THEN at[k] = given[k]
                  ELSE \A c \in DefaultWriters(k) : at[k] = ConfigDefaults(c)[k.name]
            /\ \A i \in 1..Len(calls) :
                  \A name \in DOMAIN ConfigDefaults(calls[i].obj.cls) :
                      Key(ConfigNamespace(calls[i].obj.cls), name) \in DOMAIN at

\* a K was added; templating.default was given in env_config and in
\* app_config, k.opt in app_config only, templating.renderers in neither
C15_Witness ==
    /\ configured # Unconfigured
    /\ \E i \in 1..Len(calls) : calls[i].obj.cls = "K"
    /\ TemplatingDefault \in (DOMAIN configured.env_config) \cap (DOMAIN configured.app_config)
    /\ configured.env_config[TemplatingDefault] # configured.app_config[TemplatingDefault]
    /\ configured.at_start[TemplatingDefault] = configured.env_config[TemplatingDefault]
    /\ Key("k.", "opt") \in DOMAIN configured.app_config
    /\ configured.at_start[Key("k.", "opt")] = Str("app")
    /\ TemplatingRenderers \notin (DOMAIN configured.env_config) \cup (DOMAIN configured.app_config)
    /\ configured.at_start[TemplatingRenderers] = <<>>

\* --------------------------------------------------------------------- C16
\* C16 as stated: at the return of TemplateEnginesSupport.configure(config),
\* config['templating.renderers'] contains 'json' and
\* config['templating.default'] is one of config['templating.renderers'].
C16_DefaultAmongRenderers ==
    \A out \in configured.templating_out :
        /\ "json" \in Elements(out[TemplatingRenderers])
        /\ out[TemplatingDefault].cls \in Elements(out[TemplatingRenderers])

\* --------------------------------------------------------------------- C17
\* where event e first is in the trace of the call under way (past its
\* end: nowhere)
At(e) == Lowest({i \in 1..Len(request.trace) : request.trace[i] = e} \cup {Len(request.trace) + 1})

Happened(e) == At(e) <= Len(request.trace)

\* C17: the handler is invoked once, after the session was put in the
\* context and in environ['beaker.session']; persist is called only after
\* the handler returned and only if the session was accessed; a Set-cookie
\* header is appended only if the session was accessed, its set_cookie flag
\* is set and its cookie_out is not empty.
C17_SessionAroundHandler ==
    /\ Count(request.trace, "handler") <= 1
    /\ request.pc \in {"returned", "persisted", "responding", "done", "raised"}
          => Count(request.trace, "handler") = 1
    /\ Happened("handler")
          => /\ At("place") < At("handler")
             /\ "session" \in request.context
             /\ "beaker.session" \in request.environ
    /\ Happened("persist")
          => /\ At("returned") < At("persist")
             /\ request.accessed
    /\ IF request.headers # request.returned
       THEN /\ request.headers
                  = Append(request.returned, << "Set-cookie", request.cookie_out.cls >>)
            /\ At("persist") < At("set_cookie")
            /\ request.accessed
            /\ request.set_cookie
            /\ request.cookie_out \notin {NoneV, Str("")}
       ELSE ~Happened("set_cookie")

\* a call whose handler used the session has returned a response with the
\* handler's header and the session's cookie
C17_Witness ==
    /\ request.pc = "done"
    /\ request.trace = << "place", "handler", "returned", "persist", "set_cookie", "return" >>
    /\ request.headers = << << "Content-Type", "text/html" >>,
                            << "Set-cookie", "beaker.session.id=1" >> >>

====
